---- MODULE Spec2Model ----
(***************************************************************************)
(* Model of pkt_parser (src/packet_sniffer/src/pkt_parser/mod.rs): the     *)
(* layered header decoders (Ethernet, IPv4, IPv6, TCP, UDP), the direction *)
(* classifier and the TimeVal <-> microsecond-count conversions.           *)
(*                                                                         *)
(* A byte buffer (Vec<u8>) is a sequence of naturals below 256; Rust's     *)
(* 0-based index i is position i + 1 of the sequence.  A decode call       *)
(* returns a record [res, rest]: res is the Result (kind "Ok" with a       *)
(* header, kind "Err" with a message) and rest the returned Vec<u8>.  An   *)
(* out-of-bounds index or slice is a Rust panic: the call does not return, *)
(* which is the outcome of kind "Panic".                                   *)
(***************************************************************************)
EXTENDS Integers, Sequences, FiniteSets, TLC

VARIABLES
    frame,      \* the captured frame handed to the first decoder
    data,       \* the argument of the last decode call
    result,     \* the Result of the last decode call (or kind "None"/"Panic")
    payload,    \* the buffer returned by the last decode call: the next input
    trace,      \* the decoders called so far, in call order
    headers,    \* the headers the calls so far returned in Ok
    tv,         \* a TimeVal: four little-endian bytes for sec and for u_sec
    count,      \* the u64 microsecond count of tv, eight little-endian bytes
    back,       \* the TimeVal built from count by From<u64>
    tstep,      \* position in the TimeVal conversion round trip
    nethdr,     \* the decoded network-layer header given to the classifier
    device,     \* the addresses of the capturing Device, a list of IpAddr
    direction   \* the Direction returned by the classifier, or "None"

vars == <<frame, data, result, payload, trace, headers,
          tv, count, back, tstep, nethdr, device, direction>>

decodeVars == <<frame, data, result, payload, trace, headers>>
timeVars == <<tv, count, back, tstep>>
dirVars == <<nethdr, device, direction>>

-----------------------------------------------------------------------------
(* Bounds of the model *)

\* longest frame handed to a decoder
MaxLen == 94
\* longest address list of a Device
MaxAddrs == 2

-----------------------------------------------------------------------------
(* Byte buffers, indexing and slicing *)

\* data[i], 0-based; the caller guards it with InBounds
At(buf, i) == buf[i + 1]

\* &data[a..b], 0-based and half-open; the caller guards it with SliceOk
Slice(buf, a, b) == SubSeq(buf, a + 1, b)

\* data[i] does not panic
InBounds(buf, i) == i < Len(buf)

\* &data[a..b] does not panic
SliceOk(buf, a, b) == a <= b /\ b <= Len(buf)

\* ((hi as u16) << 8) | lo as u16
U16BE(hi, lo) == ((hi * 256) % 65536) + lo

-----------------------------------------------------------------------------
(* utils: formatting of addresses *)

HexDigits == <<"0", "1", "2", "3", "4", "5", "6", "7",
               "8", "9", "a", "b", "c", "d", "e", "f">>

\* write!(f, "{:02x}", byte)
Hex02(b) == HexDigits[(b \div 16) + 1] \o HexDigits[(b % 16) + 1]

\* format!("{:x}", n): lowercase hex without padding
RECURSIVE HexX(_)
HexX(n) == IF n < 16 THEN HexDigits[n + 1]
           ELSE HexX(n \div 16) \o HexDigits[(n % 16) + 1]

\* b.to_string() of an integer: decimal without padding
RECURSIVE DecStr(_)
DecStr(n) == IF n < 10 THEN HexDigits[n + 1]
             ELSE DecStr(n \div 10) \o HexDigits[(n % 10) + 1]

\* Display of HexSlice: every byte as two hex digits, nothing in between
RECURSIVE HexSlice(_)
HexSlice(bytes) == IF bytes = <<>> THEN ""
                   ELSE Hex02(Head(bytes)) \o HexSlice(Tail(bytes))

\* Vec<String>::join(sep)
RECURSIVE Join(_, _)
Join(strs, sep) == IF strs = <<>> THEN ""
                   ELSE IF Len(strs) = 1 THEN strs[1]
                   ELSE strs[1] \o sep \o Join(Tail(strs), sep)

mac_address_to_string(address) == HexSlice(address)

ipv4_address_to_string(address) ==
    Join([i \in 1..Len(address) |-> DecStr(address[i])], ".")

ipv6_address_to_string(address) == HexSlice(address)

-----------------------------------------------------------------------------
(* The decode contract: (Result<Self, DecodeError>, Vec<u8>) *)

NoHeader == [layer |-> "None"]

Ok(h) == [kind |-> "Ok", header |-> h, msg |-> ""]
Err(m) == [kind |-> "Err", header |-> NoHeader, msg |-> m]
Ret(r, rest) == [res |-> r, rest |-> rest]
\* an index or a slice out of bounds: the call unwinds and returns nothing
Panic == [res |-> [kind |-> "Panic", header |-> NoHeader, msg |-> ""], rest |-> <<>>]

EthTooShortMsg == "Cannot decode an ethernet packet because is not long enough."
Ipv4TooShortMsg == "Cannot decode ipv4 packet because is not long enough."
EtherTypeMsg(val) == "Cannot get the correct ether type, received 0x" \o HexX(val)
ProtocolMsg(value) == "Unable to identify level 4 protocol. Received 0x" \o HexX(value)

\* faulty variant: the ether type field read low byte first
EthernetHeader_decode_LE(buf) ==
    LET len == Len(buf) IN
    IF len < 14 THEN Ret(Err(EthTooShortMsg), buf)
    ELSE
      LET eth_header == Slice(buf, 0, 14)
          ether_type_vec == Slice(eth_header, 12, 14)
          ether_payload == Slice(buf, 14, len)
          val == U16BE(At(ether_type_vec, 1), At(ether_type_vec, 0))
          hdr(t) == [layer |-> "Ethernet",
                     dest |-> mac_address_to_string(Slice(eth_header, 0, 6)),
                     src |-> mac_address_to_string(Slice(eth_header, 6, 12)),
                     ether_type |-> t]
      IN CASE val = 2048 -> Ret(Ok(hdr("Ipv4")), ether_payload)
           [] val = 2054 -> Ret(Ok(hdr("ARP")), ether_payload)
           [] val = 34525 -> Ret(Ok(hdr("Ipv6")), ether_payload)
           [] OTHER -> Ret(Err(EtherTypeMsg(val)), buf)

\* faulty variant: the too-short error hands back an emptied buffer
EthernetHeader_decode_Drop(buf) ==
    LET len == Len(buf) IN
    IF len < 14 THEN Ret(Err(EthTooShortMsg), <<>>)
    ELSE
      LET eth_header == Slice(buf, 0, 14)
          ether_type_vec == Slice(eth_header, 12, 14)
          ether_payload == Slice(buf, 14, len)
          val == U16BE(At(ether_type_vec, 0), At(ether_type_vec, 1))
          hdr(t) == [layer |-> "Ethernet",
                     dest |-> mac_address_to_string(Slice(eth_header, 0, 6)),
                     src |-> mac_address_to_string(Slice(eth_header, 6, 12)),
                     ether_type |-> t]
      IN CASE val = 2048 -> Ret(Ok(hdr("Ipv4")), ether_payload)
           [] val = 2054 -> Ret(Ok(hdr("ARP")), ether_payload)
           [] val = 34525 -> Ret(Ok(hdr("Ipv6")), ether_payload)
           [] OTHER -> Ret(Err(EtherTypeMsg(val)), buf)

\* EthernetHeader::decode
EthernetHeader_decode(buf) ==
    LET len == Len(buf) IN
    IF len < 14 THEN Ret(Err(EthTooShortMsg), buf)
    ELSE
      LET eth_header == Slice(buf, 0, 14)
          ether_type_vec == Slice(eth_header, 12, 14)
          ether_payload == Slice(buf, 14, len)
          val == U16BE(At(ether_type_vec, 0), At(ether_type_vec, 1))
          hdr(t) == [layer |-> "Ethernet",
                     dest |-> mac_address_to_string(Slice(eth_header, 0, 6)),
                     src |-> mac_address_to_string(Slice(eth_header, 6, 12)),
                     ether_type |-> t]
      IN CASE val = 2048 -> Ret(Ok(hdr("Ipv4")), ether_payload)
           [] val = 2054 -> Ret(Ok(hdr("ARP")), ether_payload)
           [] val = 34525 -> Ret(Ok(hdr("Ipv6")), ether_payload)
           [] OTHER -> Ret(Err(EtherTypeMsg(val)), buf)

\* faulty variant: the unrecognized-protocol error hands back the buffer after the
\* fixed header instead of the buffer it was given
Ipv4Header_decode_Eat(buf) ==
    LET len == Len(buf) IN
    IF len < 20 THEN Ret(Err(Ipv4TooShortMsg), buf)
    ELSE
      LET header_len == (At(buf, 0) % 16) * 4
          value == At(buf, 9)
          hdr(p) == [layer |-> "Ipv4",
                     src |-> ipv4_address_to_string(Slice(buf, 12, 16)),
                     dest |-> ipv4_address_to_string(Slice(buf, 16, 20)),
                     protocol |-> p]
          done(p) == IF SliceOk(buf, header_len, len)
                     THEN Ret(Ok(hdr(p)), Slice(buf, header_len, len))
                     ELSE Panic
      IN CASE value = 6 -> done("TCP")
           [] value = 17 -> done("UDP")
           [] OTHER -> Ret(Err(ProtocolMsg(value)), Slice(buf, 20, len))

\* Ipv4Header::decode
Ipv4Header_decode(buf) ==
    LET len == Len(buf) IN
    IF len < 20 THEN Ret(Err(Ipv4TooShortMsg), buf)
    ELSE
      LET header_len == (At(buf, 0) % 16) * 4
          value == At(buf, 9)
          hdr(p) == [layer |-> "Ipv4",
                     src |-> ipv4_address_to_string(Slice(buf, 12, 16)),
                     dest |-> ipv4_address_to_string(Slice(buf, 16, 20)),
                     protocol |-> p]
          done(p) == IF SliceOk(buf, header_len, len)
                     THEN Ret(Ok(hdr(p)), Slice(buf, header_len, len))
                     ELSE Panic
      IN CASE value = 6 -> done("TCP")
           [] value = 17 -> done("UDP")
           [] OTHER -> Ret(Err(ProtocolMsg(value)), buf)

\* Ipv6Header::decode
Ipv6Header_decode(buf) ==
    LET len == Len(buf) IN
    IF ~InBounds(buf, 9) THEN Panic
    ELSE
      LET value == At(buf, 9)
          hdr(p) == [layer |-> "Ipv6",
                     src |-> ipv6_address_to_string(Slice(buf, 8, 20)),
                     dest |-> ipv6_address_to_string(Slice(buf, 20, 36)),
                     protocol |-> p]
          done(p) == IF SliceOk(buf, 8, 20) /\ SliceOk(buf, 20, 36)
                        /\ SliceOk(buf, 40, len)
                     THEN Ret(Ok(hdr(p)), Slice(buf, 40, len))
                     ELSE Panic
      IN CASE value = 6 -> done("TCP")
           [] value = 17 -> done("UDP")
           [] OTHER -> done("Unknown")

\* faulty variant: the two ports read in the wrong order
UDPHeader_decode_Swap(buf) ==
    IF ~(InBounds(buf, 0) /\ InBounds(buf, 1) /\ InBounds(buf, 2)
         /\ InBounds(buf, 3) /\ SliceOk(buf, 8, Len(buf)))
    THEN Panic
    ELSE LET src == U16BE(At(buf, 2), At(buf, 3))
             dest == U16BE(At(buf, 0), At(buf, 1))
         IN Ret(Ok([layer |-> "UDP", dest |-> dest, src |-> src]),
                Slice(buf, 8, Len(buf)))

\* UDPHeader::decode
UDPHeader_decode(buf) ==
    IF ~(InBounds(buf, 0) /\ InBounds(buf, 1) /\ InBounds(buf, 2)
         /\ InBounds(buf, 3) /\ SliceOk(buf, 8, Len(buf)))
    THEN Panic
    ELSE LET src == U16BE(At(buf, 0), At(buf, 1))
             dest == U16BE(At(buf, 2), At(buf, 3))
         IN Ret(Ok([layer |-> "UDP", dest |-> dest, src |-> src]),
                Slice(buf, 8, Len(buf)))

\* faulty variant: the header length taken from the data-offset field (byte 12)
TCPHeader_decode_Offset(buf) ==
    IF ~(InBounds(buf, 0) /\ InBounds(buf, 1) /\ InBounds(buf, 2)
         /\ InBounds(buf, 3) /\ SliceOk(buf, 20, Len(buf)))
    THEN Panic
    ELSE LET src == U16BE(At(buf, 0), At(buf, 1))
             dest == U16BE(At(buf, 2), At(buf, 3))
             off == (At(buf, 12) \div 16) * 4
         IN IF SliceOk(buf, off, Len(buf))
            THEN Ret(Ok([layer |-> "TCP", dest |-> dest, src |-> src]),
                     Slice(buf, off, Len(buf)))
            ELSE Panic

\* TCPHeader::decode
TCPHeader_decode(buf) ==
    IF ~(InBounds(buf, 0) /\ InBounds(buf, 1) /\ InBounds(buf, 2)
         /\ InBounds(buf, 3) /\ SliceOk(buf, 20, Len(buf)))
    THEN Panic
    ELSE LET src == U16BE(At(buf, 0), At(buf, 1))
             dest == U16BE(At(buf, 2), At(buf, 3))
         IN Ret(Ok([layer |-> "TCP", dest |-> dest, src |-> src]),
                Slice(buf, 20, Len(buf)))

-----------------------------------------------------------------------------
(* The frames handed to the decoders *)

\* a byte that depends on its position alone, different at every position
Filler(i) == ((i * 37) + 11) % 256

\* the two bytes of the ether type field
EtherHiBytes == {0, 8, 134}
EtherLoBytes == {0, 6, 221}
\* the IPv4 header-length nibble, under version nibble 4
IhlNibbles == {0, 4, 5, 6, 15}
\* the protocol / next-header byte: TCP, UDP and ICMP
ProtocolBytes == {6, 17, 1}

\* A frame of n bytes: the ether type at 12..14, the version/IHL byte where an
\* IPv4 header starts (0 when decoded alone, 14 behind Ethernet), the protocol
\* byte at offset 9 of the network header (9 alone, 23 behind Ethernet).
MkFrame(n, etHi, etLo, ihl, proto) ==
    [k \in 1..n |->
        LET i == k - 1 IN
        CASE i = 12 -> etHi
          [] i = 13 -> etLo
          [] i \in {0, 14} -> 64 + ihl
          [] i \in {9, 23} -> proto
          [] OTHER -> Filler(i)]

Frames ==
    {MkFrame(n, etHi, etLo, ihl, proto) :
        n \in 0..MaxLen, etHi \in EtherHiBytes, etLo \in EtherLoBytes,
        ihl \in IhlNibbles, proto \in ProtocolBytes}

-----------------------------------------------------------------------------
(* The decode chain, driven by the caller *)

Layers == {"Ethernet", "Ipv4", "Ipv6", "TCP", "UDP"}

\* link layer, network layer, transport layer
LayerRank(layer) ==
    CASE layer = "Ethernet" -> 1
      [] layer \in {"Ipv4", "Ipv6"} -> 2
      [] layer \in {"TCP", "UDP"} -> 3

\* The caller hands the frame to any decoder, and the remainder of a
\* successful decode to a decoder of a deeper layer; an Err is unwrapped
\* (the packet is dropped) and a panic ends the chain.
CanCall(layer) ==
    /\ result.kind \in {"None", "Ok"}
    /\ IF trace = <<>> THEN TRUE
       ELSE LayerRank(trace[Len(trace)]) < LayerRank(layer)

\* let (res, rest) = EthernetHeader::decode(payload);
DecodeEthernet ==
    /\ CanCall("Ethernet")
    /\ LET r == EthernetHeader_decode(payload) IN
         /\ data' = payload
         /\ result' = r.res
         /\ payload' = r.rest
         /\ trace' = Append(trace, "Ethernet")
         /\ headers' = IF r.res.kind = "Ok" THEN Append(headers, r.res.header)
                       ELSE headers
    /\ UNCHANGED <<frame, timeVars, dirVars>>

\* let (res, rest) = Ipv4Header::decode(payload);
DecodeIpv4 ==
    /\ CanCall("Ipv4")
    /\ LET r == Ipv4Header_decode(payload) IN
         /\ data' = payload
         /\ result' = r.res
         /\ payload' = r.rest
         /\ trace' = Append(trace, "Ipv4")
         /\ headers' = IF r.res.kind = "Ok" THEN Append(headers, r.res.header)
                       ELSE headers
    /\ UNCHANGED <<frame, timeVars, dirVars>>

\* let (res, rest) = Ipv6Header::decode(payload);
DecodeIpv6 ==
    /\ CanCall("Ipv6")
    /\ LET r == Ipv6Header_decode(payload) IN
         /\ data' = payload
         /\ result' = r.res
         /\ payload' = r.rest
         /\ trace' = Append(trace, "Ipv6")
         /\ headers' = IF r.res.kind = "Ok" THEN Append(headers, r.res.header)
                       ELSE headers
    /\ UNCHANGED <<frame, timeVars, dirVars>>

\* let (res, rest) = TCPHeader::decode(payload);
DecodeTCP ==
    /\ CanCall("TCP")
    /\ LET r == TCPHeader_decode(payload) IN
         /\ data' = payload
         /\ result' = r.res
         /\ payload' = r.rest
         /\ trace' = Append(trace, "TCP")
         /\ headers' = IF r.res.kind = "Ok" THEN Append(headers, r.res.header)
                       ELSE headers
    /\ UNCHANGED <<frame, timeVars, dirVars>>

\* let (res, rest) = UDPHeader::decode(payload);
DecodeUDP ==
    /\ CanCall("UDP")
    /\ LET r == UDPHeader_decode(payload) IN
         /\ data' = payload
         /\ result' = r.res
         /\ payload' = r.rest
         /\ trace' = Append(trace, "UDP")
         /\ headers' = IF r.res.kind = "Ok" THEN Append(headers, r.res.header)
                       ELSE headers
    /\ UNCHANGED <<frame, timeVars, dirVars>>

NoTimeVal == [sec |-> <<0, 0, 0, 0>>, u_sec |-> <<0, 0, 0, 0>>]

TimeIdle ==
    /\ tv = NoTimeVal
    /\ count = <<0, 0, 0, 0, 0, 0, 0, 0>>
    /\ back = NoTimeVal
    /\ tstep = "idle"

DirIdle ==
    /\ nethdr = NoHeader
    /\ device = <<>>
    /\ direction = "None"

DecodeIdle ==
    /\ frame = <<>>
    /\ data = <<>>
    /\ result = [kind |-> "None", header |-> NoHeader, msg |-> ""]
    /\ payload = <<>>
    /\ trace = <<>>
    /\ headers = <<>>

Init ==
    /\ frame \in Frames
    /\ data = <<>>
    /\ result = [kind |-> "None", header |-> NoHeader, msg |-> ""]
    /\ payload = frame
    /\ trace = <<>>
    /\ headers = <<>>
    /\ TimeIdle
    /\ DirIdle

Next ==
    \/ DecodeEthernet
    \/ DecodeIpv4
    \/ DecodeIpv6
    \/ DecodeTCP
    \/ DecodeUDP

Spec == Init /\ [][Next]_vars

-----------------------------------------------------------------------------
(* Properties of the decoders *)

\* the last decode call was to this layer's decoder
Called(layer) == trace # <<>> /\ trace[Len(trace)] = layer

\* the suffix of buf that starts at 0-based offset n
Suffix(buf, n) == SubSeq(buf, n + 1, Len(buf))

\* The number of bytes each layer's header takes, as the specification
\* states it.
ConsumedLength(layer, buf) ==
    CASE layer = "Ethernet" -> 14
      [] layer = "Ipv6" -> 40
      [] layer = "TCP" -> 20
      [] layer = "UDP" -> 8
      [] layer = "Ipv4" -> (buf[1] % 16) * 4

\* C1: EthernetHeader::decode on a buffer of 0 to 13 bytes returns the
\* too-short error and, as remainder, the buffer it was given, byte for byte.
C1_EthernetTooShort ==
    (Called("Ethernet") /\ Len(data) < 14) =>
        /\ result.kind = "Err"
        /\ result.msg = EthTooShortMsg
        /\ Len(payload) = Len(data)
        /\ \A k \in 1..Len(data) : payload[k] = data[k]

C1_Witness ==
    /\ Called("Ethernet")
    /\ Len(data) = 13
    /\ result.kind = "Err"
    /\ payload # <<>>

\* C2: whenever one of the five decoders returns an error, the remainder it
\* returns is the buffer it was given (same bytes, same length).
C2_ErrorKeepsBuffer ==
    (trace # <<>> /\ result.kind = "Err") =>
        /\ Len(payload) = Len(data)
        /\ \A k \in 1..Len(data) : payload[k] = data[k]

\* an IPv4 decode behind Ethernet that fails on the protocol number
C2_Witness ==
    /\ trace = <<"Ethernet", "Ipv4">>
    /\ result.kind = "Err"
    /\ Len(data) >= 20
    /\ payload = data

\* C3: after every successful decode the remainder is the suffix of the input
\* that starts at the layer's consumed length (14, 40, 20, 8, or the IPv4
\* header-length nibble times 4), so consumed + remainder = input length.
C3_RemainderIsSuffix ==
    (trace # <<>> /\ result.kind = "Ok") =>
        LET c == ConsumedLength(trace[Len(trace)], data) IN
        /\ c <= Len(data)
        /\ payload = Suffix(data, c)
        /\ c + Len(payload) = Len(data)

\* a TCP header whose data-offset field is not 5 words, with payload behind it
C3_Witness ==
    /\ trace = <<"Ethernet", "Ipv4", "TCP">>
    /\ result.kind = "Ok"
    /\ (data[13] \div 16) # 5
    /\ Len(payload) > 0
    /\ Len(payload) + 20 = Len(data)

\* C4: every decode call returns an outcome (a header or an error) with a
\* remainder; none aborts, also not on a buffer shorter than the header.
C4_NoAbort == result.kind \in {"None", "Ok", "Err"}

\* C5: on a buffer of at least 14 bytes the ether type is the big-endian value
\* of bytes 12 and 13: 0x0800 is IPv4, 0x0806 ARP, 0x86DD IPv6, and every
\* other value an error without a header.
C5_EtherTypeMapping ==
    (Called("Ethernet") /\ Len(data) >= 14) =>
        LET v == (data[13] * 256) + data[14] IN
        /\ v = 2048 => (result.kind = "Ok" /\ result.header.ether_type = "Ipv4")
        /\ v = 2054 => (result.kind = "Ok" /\ result.header.ether_type = "ARP")
        /\ v = 34525 => (result.kind = "Ok" /\ result.header.ether_type = "Ipv6")
        /\ v \notin {2048, 2054, 34525} =>
               (result.kind = "Err" /\ result.header = NoHeader)

C5_Witness ==
    /\ Called("Ethernet")
    /\ Len(data) >= 14
    /\ data[13] = 134 /\ data[14] = 221
    /\ result.kind = "Ok"
    /\ result.header.ether_type = "Ipv6"

\* C6: the protocol tag is byte 9.  Ipv4Header::decode on at least 20 bytes
\* yields TCP for 6, UDP for 17 and an error for every other value;
\* Ipv6Header::decode on at least 40 bytes yields TCP for 6, UDP for 17 and
\* a header with protocol Unknown for every other value, never an error.
C6_ProtocolMapping ==
    /\ (Called("Ipv4") /\ Len(data) >= 20) =>
          /\ data[10] = 6 => (result.kind = "Ok" /\ result.header.protocol = "TCP")
          /\ data[10] = 17 => (result.kind = "Ok" /\ result.header.protocol = "UDP")
          /\ data[10] \notin {6, 17} => result.kind = "Err"
    /\ (Called("Ipv6") /\ Len(data) >= 40) =>
          /\ result.kind = "Ok"
          /\ data[10] = 6 => result.header.protocol = "TCP"
          /\ data[10] = 17 => result.header.protocol = "UDP"
          /\ data[10] \notin {6, 17} => result.header.protocol = "Unknown"

\* the frame of a chain Ethernet -> IPv4 -> TCP/UDP: ether type 0x0800 and a
\* header-length nibble of at least 5
Ipv4Frame ==
    /\ Len(frame) >= 24
    /\ frame[13] = 8 /\ frame[14] = 0
    /\ frame[15] % 16 >= 5

\* offset in the frame of the transport header
TransportOffset == 14 + (4 * (frame[15] % 16))

\* the frame carries protocol p and all of a transport header of n bytes
Carries(p, n) ==
    /\ Ipv4Frame
    /\ frame[24] = p
    /\ Len(frame) >= TransportOffset + n

\* C9: a frame with ether type 0x0800, header-length nibble h >= 5, protocol
\* byte 17 (6) and at least 14 + 4h + 8 (20) bytes decodes through Ethernet,
\* IPv4 and UDP (TCP); the ports are the big-endian values at 14+4h and
\* 14+4h+2, the addresses are frame bytes 26..30 and 30..34, and the last
\* remainder is the frame after the transport header.
C9_ChainedDecode ==
    \A t \in {[p |-> 17, n |-> 8, layer |-> "UDP"],
              [p |-> 6, n |-> 20, layer |-> "TCP"]} :
        Carries(t.p, t.n) =>
            /\ trace = <<"Ethernet">> =>
                  /\ result.kind = "Ok"
                  /\ result.header.ether_type = "Ipv4"
            /\ trace = <<"Ethernet", "Ipv4">> =>
                  /\ result.kind = "Ok"
                  /\ result.header.protocol = t.layer
                  /\ result.header.src =
                       ipv4_address_to_string(SubSeq(frame, 27, 30))
                  /\ result.header.dest =
                       ipv4_address_to_string(SubSeq(frame, 31, 34))
            /\ trace = <<"Ethernet", "Ipv4", t.layer>> =>
                  LET o == TransportOffset IN
                  /\ result.kind = "Ok"
                  /\ Len(headers) = 3
                  /\ result.header.src = (frame[o + 1] * 256) + frame[o + 2]
                  /\ result.header.dest = (frame[o + 3] * 256) + frame[o + 4]
                  /\ payload = Suffix(frame, o + t.n)

\* a UDP datagram behind an IPv4 header with options
C9_Witness ==
    /\ Carries(17, 8)
    /\ frame[15] % 16 = 6
    /\ trace = <<"Ethernet", "Ipv4", "UDP">>
    /\ result.kind = "Ok"
    /\ result.header.src # result.header.dest
    /\ Len(payload) > 0

\* C10: a successful Ipv4Header::decode consumes at least the 20 bytes of the
\* fixed header and at most the input, so the remainder holds none of the
\* fixed header's bytes.
C10_Ipv4ConsumesFixedHeader ==
    (Called("Ipv4") /\ result.kind = "Ok") =>
        LET c == ConsumedLength("Ipv4", data) IN
        /\ 20 <= c
        /\ c <= Len(data)
        /\ Len(payload) <= Len(data) - 20

-----------------------------------------------------------------------------
(* TimeVal and its conversions.  A u32 is four bytes and a u64 eight bytes, *)
(* least significant first, so that 64-bit values stay within the integers  *)
(* the checker computes with.                                                *)

\* microseconds in a second, the factor of both conversions
MicrosPerSec == 1000000

\* n as u32, for 0 <= n < 2^31
U32(n) == <<n % 256, (n \div 256) % 256, (n \div 65536) % 256,
            (n \div 16777216) % 256>>

\* x as u64 of a u32: zero extension
AsU64(b) == b \o <<0, 0, 0, 0>>

\* x as u32 of a u64: the low four bytes
AsU32(b) == SubSeq(b, 1, 4)

\* a * m in the width of a, m a small factor (wrapping)
RECURSIVE MulSmall(_, _, _)
MulSmall(a, m, carry) ==
    IF a = <<>> THEN <<>>
    ELSE LET t == (Head(a) * m) + carry
         IN <<t % 256>> \o MulSmall(Tail(a), m, t \div 256)

\* a + b in the width of a (wrapping)
RECURSIVE AddBytes(_, _, _)
AddBytes(a, b, carry) ==
    IF a = <<>> THEN <<>>
    ELSE LET t == Head(a) + Head(b) + carry
         IN <<t % 256>> \o AddBytes(Tail(a), Tail(b), t \div 256)

\* a / d and a % d, d a small divisor: long division from the top byte
RECURSIVE DivRem(_, _)
DivRem(a, d) ==
    IF a = <<>> THEN [q |-> <<>>, r |-> 0]
    ELSE LET hi == DivRem(Tail(a), d)
             cur == (hi.r * 256) + Head(a)
         IN [q |-> <<cur \div d>> \o hi.q, r |-> cur % d]

\* <TimeVal as Into<u64>>::into
TimeVal_into(t) ==
    AddBytes(MulSmall(AsU64(t.sec), MicrosPerSec, 0), AsU64(t.u_sec), 0)

\* faulty variant: the count taken for milliseconds
TimeVal_from_Millis(v) ==
    LET d == DivRem(v, 1000)
    IN [sec |-> AsU32(d.q), u_sec |-> U32(d.r)]

\* <TimeVal as From<u64>>::from
TimeVal_from(v) ==
    LET d == DivRem(v, MicrosPerSec)
    IN [sec |-> AsU32(d.q), u_sec |-> U32(d.r)]

\* the bytes a sec field is made of: 81 values from 0 to 2^32 - 1
SecBytes == {0, 1, 255}
\* u_sec values inside and outside the range of a microsecond field
USecValues == {U32(0), U32(1), U32(65536), U32(999999), U32(1000000),
               <<255, 255, 255, 255>>}

TimeVals ==
    {[sec |-> <<b0, b1, b2, b3>>, u_sec |-> u] :
        b0 \in SecBytes, b1 \in SecBytes, b2 \in SecBytes, b3 \in SecBytes,
        u \in USecValues}

\* let v: u64 = tv.into();
IntoCount ==
    /\ tstep = "start"
    /\ count' = TimeVal_into(tv)
    /\ tstep' = "count"
    /\ UNCHANGED <<tv, back, decodeVars, dirVars>>

\* let back = TimeVal::from(v);
FromCount ==
    /\ tstep = "count"
    /\ back' = TimeVal_from(count)
    /\ tstep' = "back"
    /\ UNCHANGED <<tv, count, decodeVars, dirVars>>

InitTime ==
    /\ tv \in TimeVals
    /\ count = <<0, 0, 0, 0, 0, 0, 0, 0>>
    /\ back = NoTimeVal
    /\ tstep = "start"
    /\ DecodeIdle
    /\ DirIdle

NextTime ==
    \/ IntoCount
    \/ FromCount

SpecTime == InitTime /\ [][NextTime]_vars

\* the value of a u32 is below 1,000,000
ValidMicros(b) ==
    b[4] = 0 /\ b[1] + (256 * b[2]) + (65536 * b[3]) < 1000000

\* C7: for sec < 2^32 and u_sec < 1,000,000, the count converted back is the
\* TimeVal it was made from, and no other such TimeVal has the same count.
C7_TimeValRoundTrip ==
    ValidMicros(tv.u_sec) =>
        /\ tstep = "back" => (back.sec = tv.sec /\ back.u_sec = tv.u_sec)
        /\ tstep \in {"count", "back"} =>
              \A t \in TimeVals :
                  (ValidMicros(t.u_sec) /\ TimeVal_into(t) = count) => t = tv

\* the largest TimeVal of the domain, converted and converted back
C7_Witness ==
    /\ tstep = "back"
    /\ tv.sec = <<255, 255, 255, 255>>
    /\ tv.u_sec = U32(999999)
    /\ back = tv
    /\ count # AsU64(tv.sec)

-----------------------------------------------------------------------------
(* The direction classifier.  An address of the Device is an IpAddr: a     *)
(* record [v, octets] with v = 4 and four octets, or v = 6 and sixteen.     *)

\* Display of Ipv4Addr: the four octets in decimal, dots in between
Ipv4Addr_to_string(octets) ==
    Join([i \in 1..Len(octets) |-> DecStr(octets[i])], ".")

\* Ipv6Addr::segments: eight 16-bit big-endian groups
Segments(octets) ==
    [i \in 1..8 |-> (octets[(2 * i) - 1] * 256) + octets[2 * i]]

\* the groups in lowercase hex without padding, colons in between
FmtSubslice(segs) == Join([i \in 1..Len(segs) |-> HexX(segs[i])], ":")

\* The longest run of zero groups, the first one among equals: a scan that
\* keeps the current run and the longest one so far, as [start, len].
RECURSIVE ZeroRun(_, _, _, _)
ZeroRun(segs, i, cur, longest) ==
    IF i > Len(segs) THEN longest
    ELSE IF segs[i] = 0
    THEN LET c == [start |-> IF cur.len = 0 THEN i ELSE cur.start,
                   len |-> cur.len + 1]
         IN ZeroRun(segs, i + 1, c, IF c.len > longest.len THEN c ELSE longest)
    ELSE ZeroRun(segs, i + 1, [start |-> 0, len |-> 0], longest)

\* Display of Ipv6Addr: the IPv4-mapped form, else the groups with the
\* longest run of two or more zero groups written "::"
Ipv6Addr_to_string(octets) ==
    LET segs == Segments(octets)
        z == ZeroRun(segs, 1, [start |-> 0, len |-> 0], [start |-> 0, len |-> 0])
    IN IF SubSeq(segs, 1, 6) = <<0, 0, 0, 0, 0, 65535>>
       THEN "::ffff:" \o Ipv4Addr_to_string(SubSeq(octets, 13, 16))
       ELSE IF z.len > 1
       THEN FmtSubslice(SubSeq(segs, 1, z.start - 1)) \o "::"
            \o FmtSubslice(SubSeq(segs, z.start + z.len, 8))
       ELSE FmtSubslice(segs)

\* a.addr.to_string()
IpAddr_to_string(addr) ==
    IF addr.v = 4 THEN Ipv4Addr_to_string(addr.octets)
    ELSE Ipv6Addr_to_string(addr.octets)

\* device.addresses.iter().any(|a| a.addr.to_string() == s)
RECURSIVE AnyAddress(_, _)
AnyAddress(addresses, s) ==
    IF addresses = <<>> THEN FALSE
    ELSE IF IpAddr_to_string(Head(addresses)) = s THEN TRUE
    ELSE AnyAddress(Tail(addresses), s)

\* faulty variant: the destination address looked up instead of the source
get_direction_from_ipv4_Dest(header, dev) ==
    IF AnyAddress(dev, header.dest) THEN "Transmitted" ELSE "Received"

\* get_direction_from_ipv4
get_direction_from_ipv4(header, dev) ==
    IF AnyAddress(dev, header.src) THEN "Transmitted" ELSE "Received"

\* get_direction_from_ipv6
get_direction_from_ipv6(header, dev) ==
    IF AnyAddress(dev, header.src) THEN "Transmitted" ELSE "Received"

\* the classifier of the header's layer
Classify(header, dev) ==
    IF header.layer = "Ipv4" THEN get_direction_from_ipv4(header, dev)
    ELSE get_direction_from_ipv6(header, dev)

\* the hosts of the captures in the tests, and a loopback address
V4Hosts == {<<192, 168, 1, 1>>, <<192, 168, 1, 21>>, <<149, 154, 167, 92>>}
V6Hosts == {<<254, 128, 0, 0, 0, 0, 0, 0, 5, 194, 180, 157, 9, 91, 63, 25>>,
            <<0, 0, 0, 0, 0, 0, 0, 0, 0, 0, 0, 0, 0, 0, 0, 1>>}

\* a 20-byte IPv4 header carrying UDP between two hosts
Ipv4Packet(s, d) == <<69, 0, 0, 20, 0, 0, 64, 0, 64, 17, 0, 0>> \o s \o d

\* a 40-byte IPv6 header carrying UDP between two hosts
Ipv6Packet(s, d) == <<96, 0, 0, 0, 0, 0, 17, 64>> \o s \o d

\* the headers the network-layer decoders return for these packets
NetHeaders ==
    {Ipv4Header_decode(Ipv4Packet(s, d)).res.header : s \in V4Hosts, d \in V4Hosts}
    \cup
    {Ipv6Header_decode(Ipv6Packet(s, d)).res.header : s \in V6Hosts, d \in V6Hosts}

IpAddrs ==
    {[v |-> 4, octets |-> o] : o \in V4Hosts}
    \cup {[v |-> 6, octets |-> o] : o \in V6Hosts}

\* Device::addresses: every list of at most MaxAddrs addresses
RECURSIVE AddressLists(_)
AddressLists(n) ==
    IF n = 0 THEN {<<>>}
    ELSE LET shorter == AddressLists(n - 1)
         IN shorter \cup {Append(l, a) : l \in shorter, a \in IpAddrs}

\* let direction = get_direction_from_ipv4(header, device);
ClassifyIpv4 ==
    /\ nethdr.layer = "Ipv4"
    /\ direction = "None"
    /\ direction' = get_direction_from_ipv4(nethdr, device)
    /\ UNCHANGED <<nethdr, device, decodeVars, timeVars>>

\* let direction = get_direction_from_ipv6(header, device);
ClassifyIpv6 ==
    /\ nethdr.layer = "Ipv6"
    /\ direction = "None"
    /\ direction' = get_direction_from_ipv6(nethdr, device)
    /\ UNCHANGED <<nethdr, device, decodeVars, timeVars>>

InitDir ==
    /\ nethdr \in NetHeaders
    /\ device \in AddressLists(MaxAddrs)
    /\ direction = "None"
    /\ DecodeIdle
    /\ TimeIdle

NextDir ==
    \/ ClassifyIpv4
    \/ ClassifyIpv6

SpecDir == InitDir /\ [][NextDir]_vars

\* C8: the classifier returns Transmitted exactly when the header's source
\* address string equals the string form of some address of the list, and
\* Received otherwise; an empty list gives Received, and headers that differ
\* in the destination alone are classified alike.
C8_DirectionBySource ==
    direction # "None" =>
        /\ direction \in {"Transmitted", "Received"}
        /\ direction = "Transmitted" <=>
              \E i \in 1..Len(device) : IpAddr_to_string(device[i]) = nethdr.src
        /\ device = <<>> => direction = "Received"
        /\ \A h \in NetHeaders :
              (h.layer = nethdr.layer /\ h.src = nethdr.src) =>
                  Classify(h, device) = direction

\* the source matches the second address of the list, the destination none
C8_Witness ==
    /\ direction = "Transmitted"
    /\ Len(device) = 2
    /\ IpAddr_to_string(device[1]) # nethdr.src
    /\ IpAddr_to_string(device[2]) = nethdr.src
    /\ \A i \in 1..Len(device) : IpAddr_to_string(device[i]) # nethdr.dest

====
